---- MODULE Spec2Model ----
(***************************************************************************)
(* Model of metagpt/tools/search_engine_ddg.py: DDGAPIWrapper.run (retry,  *)
(* rate limiter, executor call of _search_from_ddgs, JSON output) and      *)
(* DDGAPIWrapper.cached_run (aiocache memory cache, ttl 300).              *)
(*                                                                         *)
(* Python values: a str is [t |-> "str", v |-> <<characters>>], a list of  *)
(* result dicts is [t |-> "list", v |-> <<records>>].  A character is a    *)
(* one-character string; the one non-ASCII character of the model is the   *)
(* token EAcute.  Time is counted in whole seconds.                        *)
(***************************************************************************)
EXTENDS Integers, Sequences, FiniteSets, TLC

\* ------------------------------------------------------------------ bounds
MaxRecords == 2
MaxCalls == 2
MaxCacheCalls == 3

\* ------------------------------------------------------- program constants
TTL == 300
MaxRate == 1
TimePeriod == 1
WaitMultiplier == 1
WaitMin == 4
WaitMax == 10
StopAfterAttempt == 5

\* ----------------------------------------------------------------- helpers
Min(a, b) == IF a <= b THEN a ELSE b

Max(a, b) == IF a >= b THEN a ELSE b

RECURSIVE Pow2(_)
Pow2(n) == IF n <= 0 THEN 1 ELSE 2 * Pow2(n - 1)

\* ------------------------------------------------------------- Python data
EAcute == "U+00E9"

PyStr(s) == [t |-> "str", v |-> s]

PyList(l) == [t |-> "list", v |-> l]

PyNone == [t |-> "none"]

\* the characters of a dict key of the result records
KeyChars(name) ==
    CASE name = "link" -> <<"l", "i", "n", "k">>
      [] name = "snippet" -> <<"s", "n", "i", "p", "p", "e", "t">>
      [] name = "title" -> <<"t", "i", "t", "l", "e">>

\* the dict literal of _search_from_ddgs lists its keys in this order
ResultKeys == <<"link", "snippet", "title">>

\* ----------------------------------------------------- json.dumps / loads
\* py_encode_basestring(_ascii): quote, backslash escaped; a non-ASCII
\* character becomes \uXXXX only under ensure_ascii
EscapeChar(c, ensure_ascii) ==
    CASE c = "\"" -> <<"\\", "\"">>
      [] c = "\\" -> <<"\\", "\\">>
      [] c = EAcute -> IF ensure_ascii THEN <<"\\", "u", "0", "0", "e", "9">>
                       ELSE <<c>>
      [] OTHER -> <<c>>

\* the escapes of the characters of s, concatenated (by halves)
RECURSIVE EscapeAll(_, _)
EscapeAll(s, ensure_ascii) ==
    IF Len(s) = 0 THEN <<>>
    ELSE IF Len(s) = 1 THEN EscapeChar(s[1], ensure_ascii)
    ELSE LET h == Len(s) \div 2 IN
         EscapeAll(SubSeq(s, 1, h), ensure_ascii)
         \o EscapeAll(SubSeq(s, h + 1, Len(s)), ensure_ascii)

DumpsStr(s, ensure_ascii) == <<"\"">> \o EscapeAll(s, ensure_ascii) \o <<"\"">>

RECURSIVE DumpsPairs(_, _, _)
DumpsPairs(d, keys, ensure_ascii) ==
    IF keys = <<>> THEN <<>>
    ELSE DumpsStr(KeyChars(Head(keys)), ensure_ascii) \o <<":", " ">>
         \o DumpsStr(d[Head(keys)], ensure_ascii)
         \o (IF Tail(keys) = <<>> THEN <<>> ELSE <<",", " ">>)
         \o DumpsPairs(d, Tail(keys), ensure_ascii)

DumpsDict(d, ensure_ascii) ==
    <<"{">> \o DumpsPairs(d, ResultKeys, ensure_ascii) \o <<"}">>

RECURSIVE DumpsItems(_, _)
DumpsItems(l, ensure_ascii) ==
    IF l = <<>> THEN <<>>
    ELSE DumpsDict(Head(l), ensure_ascii)
         \o (IF Tail(l) = <<>> THEN <<>> ELSE <<",", " ">>)
         \o DumpsItems(Tail(l), ensure_ascii)

\* json.dumps(x, ensure_ascii=...), default separators (', ', ': ')
JsonDumps(x, ensure_ascii) ==
    IF x.t = "str" THEN DumpsStr(x.v, ensure_ascii)
    ELSE <<"[">> \o DumpsItems(x.v, ensure_ascii) \o <<"]">>

ParseError == [ok |-> FALSE]

At(text, i) == IF i >= 1 /\ i <= Len(text) THEN text[i] ELSE "EOF"

RECURSIVE SkipWs(_, _)
SkipWs(text, i) == IF At(text, i) = " " THEN SkipWs(text, i + 1) ELSE i

\* the number of consecutive backslashes that end right before position j
RECURSIVE BackslashRun(_, _, _)
BackslashRun(text, lo, j) ==
    IF j - 1 >= lo /\ At(text, j - 1) = "\\"
    THEN 1 + BackslashRun(text, lo, j - 1)
    ELSE 0

\* a backslash that opens an escape (it is not itself escaped)
IsEscapeStart(text, lo, p) ==
    At(text, p) = "\\" /\ BackslashRun(text, lo, p) % 2 = 0

EscapeLen(text, p) == IF At(text, p + 1) = "u" THEN 6 ELSE 2

EscapeOk(text, p) ==
    \/ At(text, p + 1) \in {"\"", "\\"}
    \/ At(text, p + 1) = "u" /\ SubSeq(text, p + 2, p + 5) = <<"0", "0", "e", "9">>

EscapeValue(text, p) ==
    IF At(text, p + 1) = "u" THEN EAcute ELSE At(text, p + 1)

\* position p starts a character or an escape (it is not inside an escape)
TokenStart(text, lo, p) ==
    ~\E s \in Max(lo, p - 5)..(p - 1) :
        IsEscapeStart(text, lo, s) /\ p < s + EscapeLen(text, s)

\* the start of the token that position p is in
RECURSIVE TokenOf(_, _, _)
TokenOf(text, lo, p) ==
    IF p <= lo \/ TokenStart(text, lo, p) THEN p ELSE TokenOf(text, lo, p - 1)

\* the characters that text[lo..hi] stands for; lo starts a token (by halves)
RECURSIVE Unescape(_, _, _)
\* split at b, the start of a token after the first one
UnescapeSplit(text, lo, hi, b) ==
    Unescape(text, lo, b - 1) \o Unescape(text, b, hi)

\* the split point: the token start m around the middle, or the second token
SplitPoint(lo, first, m) == IF m > lo THEN m ELSE lo + first

\* first is the length of the token at lo
UnescapeFrom(text, lo, hi, first) ==
    IF lo + first > hi
    THEN <<IF text[lo] = "\\" THEN EscapeValue(text, lo) ELSE text[lo]>>
    ELSE UnescapeSplit(text, lo, hi,
             SplitPoint(lo, first, TokenOf(text, lo, (lo + hi + 1) \div 2)))

Unescape(text, lo, hi) ==
    IF lo > hi THEN <<>>
    ELSE IF \A p \in lo..hi : text[p] # "\\" THEN SubSeq(text, lo, hi)
    ELSE UnescapeFrom(text, lo, hi,
             IF text[lo] = "\\" THEN EscapeLen(text, lo) ELSE 1)

\* the first quote at or after j that no backslash escapes, 0 when none
RECURSIVE ClosingQuote(_, _, _)
ClosingQuote(text, lo, j) ==
    IF j > Len(text) THEN 0
    ELSE LET blk == {p \in j..Min(j + 7, Len(text)) :
                        text[p] = "\"" /\ BackslashRun(text, lo, p) % 2 = 0}
         IN IF blk = {} THEN ClosingQuote(text, lo, j + 8)
            ELSE CHOOSE p \in blk : \A q \in blk : p <= q

\* the string that ends at the closing quote e (0: no closing quote)
ScanTo(text, lo, e) ==
    IF e = 0 THEN ParseError
    ELSE IF \E s \in lo..(e - 1) :
               IsEscapeStart(text, lo, s) /\ ~EscapeOk(text, s)
    THEN ParseError
    ELSE [ok |-> TRUE, v |-> Unescape(text, lo, e - 1), next |-> e + 1]

\* scanstring: lo is the first position after the opening quote; the string
\* ends at the first quote that no backslash escapes
ScanString(text, lo) == ScanTo(text, lo, ClosingQuote(text, lo, lo))

ParseStr(text, i) ==
    IF At(text, i) = "\"" THEN ScanString(text, i + 1) ELSE ParseError

\* the pairs of a JSON object, as a sequence of <<key characters, value>>
RECURSIVE ParsePairs(_, _, _)
\* after a pair: a comma and the next pair, or the closing brace
PairsNext(text, m, acc) ==
    CASE At(text, m) = "," -> ParsePairs(text, m + 1, acc)
      [] At(text, m) = "}" -> [ok |-> TRUE, v |-> acc, next |-> m + 1]
      [] OTHER -> ParseError

\* after the value val of key k
PairsValue(text, acc, k, val) ==
    IF ~val.ok THEN ParseError
    ELSE PairsNext(text, SkipWs(text, val.next), Append(acc, <<k.v, val.v>>))

\* after key k: the colon at j, then the value
PairsColon(text, acc, k, j) ==
    IF At(text, j) # ":" THEN ParseError
    ELSE PairsValue(text, acc, k, ParseStr(text, SkipWs(text, j + 1)))

PairsKey(text, acc, k) ==
    IF ~k.ok THEN ParseError
    ELSE PairsColon(text, acc, k, SkipWs(text, k.next))

ParsePairs(text, i, acc) == PairsKey(text, acc, ParseStr(text, SkipWs(text, i)))

\* the dict built from the pairs: a later pair overrides an earlier one
PairsToDict(pairs) ==
    LET names == {n \in {"link", "snippet", "title"} :
                     \E p \in 1..Len(pairs) : pairs[p][1] = KeyChars(n)}
        last(n) == CHOOSE p \in 1..Len(pairs) :
                     /\ pairs[p][1] = KeyChars(n)
                     /\ \A q \in 1..Len(pairs) :
                            pairs[q][1] = KeyChars(n) => q <= p
    IN [n \in names |-> pairs[last(n)][2]]

DictOf(p) ==
    IF ~p.ok THEN ParseError
    ELSE [ok |-> TRUE, v |-> PairsToDict(p.v), next |-> p.next]

ParseDict(text, i) ==
    IF At(text, i) # "{" THEN ParseError
    ELSE IF At(text, SkipWs(text, i + 1)) = "}"
         THEN [ok |-> TRUE, v |-> <<>>, next |-> SkipWs(text, i + 1) + 1]
         ELSE DictOf(ParsePairs(text, i + 1, <<>>))

RECURSIVE ParseItems(_, _, _)
\* after an item: a comma and the next item, or the closing bracket
ItemsNext(text, m, acc) ==
    CASE At(text, m) = "," -> ParseItems(text, m + 1, acc)
      [] At(text, m) = "]" -> [ok |-> TRUE, v |-> acc, next |-> m + 1]
      [] OTHER -> ParseError

ItemsItem(text, acc, d) ==
    IF ~d.ok THEN ParseError
    ELSE ItemsNext(text, SkipWs(text, d.next), Append(acc, d.v))

ParseItems(text, i, acc) == ItemsItem(text, acc, ParseDict(text, SkipWs(text, i)))

ParseList(text, i) ==
    IF At(text, SkipWs(text, i + 1)) = "]"
    THEN [ok |-> TRUE, v |-> <<>>, next |-> SkipWs(text, i + 1) + 1]
    ELSE ParseItems(text, i + 1, <<>>)

\* the value r parsed at i, accepted when only white space follows it
LoadsValue(text, i, r) ==
    IF r.ok /\ SkipWs(text, r.next) = Len(text) + 1
    THEN (IF At(text, i) = "[" THEN PyList(r.v) ELSE PyStr(r.v))
    ELSE PyNone

LoadsAt(text, i) ==
    LoadsValue(text, i,
        IF At(text, i) = "[" THEN ParseList(text, i) ELSE ParseStr(text, i))

\* json.loads(text): the Python value, or PyNone when the text is not JSON
JsonLoads(text) == LoadsAt(text, SkipWs(text, 1))

\* value equality of two Python values (same type, same content)
PyEq(a, b) == a.t = b.t /\ (a.t = "none" \/ a.v = b.v)

\* ------------------------------------------------------- _search_from_ddgs
\* an exception: its type and the text of str(e)
Exc(type, msg) == [type |-> type, msg |-> msg]

NoExc == Exc("none", "")

\* {"link": i["href"], "snippet": i["body"], "title": i["title"]}: the
\* subscripts are evaluated in this order, the first missing one raises
MissingField(i) ==
    CASE "href" \notin DOMAIN i -> "'href'"
      [] "body" \notin DOMAIN i -> "'body'"
      [] "title" \notin DOMAIN i -> "'title'"
      [] OTHER -> ""

Normalize(i) == [link |-> i["href"], snippet |-> i["body"], title |-> i["title"]]

\* zip(range(max_results), self.ddgs.text(query)): zip asks range first and
\* stops there when it is exhausted; only then it asks the generator, which
\* yields resp.records in order and then ends or raises resp.exc
\* zip with its arguments exchanged: the generator is asked first
RECURSIVE ZipLoopGenFirst(_, _, _, _)
ZipLoopGenFirst(max_results, resp, n, acc) ==
    IF n >= Len(resp.records)
    THEN IF resp.exc = NoExc
         THEN [ok |-> TRUE, value |-> acc, pulled |-> n, exc |-> NoExc]
         ELSE [ok |-> FALSE, value |-> <<>>, pulled |-> n, exc |-> resp.exc]
    ELSE IF n >= max_results
    THEN [ok |-> TRUE, value |-> acc, pulled |-> n + 1, exc |-> NoExc]
    ELSE LET i == resp.records[n + 1] IN
         IF MissingField(i) # ""
         THEN [ok |-> FALSE, value |-> <<>>, pulled |-> n + 1,
               exc |-> Exc("KeyError", MissingField(i))]
         ELSE ZipLoopGenFirst(max_results, resp, n + 1, Append(acc, Normalize(i)))

SearchFromDdgsGenFirst(max_results, resp) ==
    ZipLoopGenFirst(max_results, resp, 0, <<>>)

\* a search that keeps what it has when the provider raises
RECURSIVE ZipLoopPartial(_, _, _, _)
ZipLoopPartial(max_results, resp, n, acc) ==
    IF n >= max_results \/ n >= Len(resp.records)
    THEN [ok |-> TRUE, value |-> acc, pulled |-> n, exc |-> NoExc]
    ELSE LET i == resp.records[n + 1] IN
         IF MissingField(i) # ""
         THEN [ok |-> TRUE, value |-> acc, pulled |-> n + 1, exc |-> NoExc]
         ELSE ZipLoopPartial(max_results, resp, n + 1, Append(acc, Normalize(i)))

SearchFromDdgsPartial(max_results, resp) ==
    ZipLoopPartial(max_results, resp, 0, <<>>)

RECURSIVE ZipLoop(_, _, _, _)
ZipLoop(max_results, resp, n, acc) ==
    IF n >= max_results
    THEN [ok |-> TRUE, value |-> acc, pulled |-> n, exc |-> NoExc]
    ELSE IF n >= Len(resp.records)
    THEN IF resp.exc = NoExc
         THEN [ok |-> TRUE, value |-> acc, pulled |-> n, exc |-> NoExc]
         ELSE [ok |-> FALSE, value |-> <<>>, pulled |-> n, exc |-> resp.exc]
    ELSE LET i == resp.records[n + 1] IN
         IF MissingField(i) # ""
         THEN [ok |-> FALSE, value |-> <<>>, pulled |-> n + 1,
               exc |-> Exc("KeyError", MissingField(i))]
         ELSE ZipLoop(max_results, resp, n + 1, Append(acc, Normalize(i)))

SearchFromDdgs(max_results, resp) == ZipLoop(max_results, resp, 0, <<>>)

\* ------------------------------------------------------------ run: except
\* 'Ratelimit' in str(e), case-sensitive
ContainsRatelimit(msg) == msg \in {"Ratelimit exceeded", "202 Ratelimit"}

\* an except clause that lets a KeyError out as its own error kind
ReraiseMalformed(e) ==
    IF e.type = "KeyError" THEN Exc("MalformedResult", e.msg)
    ELSE IF ContainsRatelimit(e.msg)
    THEN Exc("DuckDuckGoSearchException", "Rate limit exceeded")
    ELSE Exc("DuckDuckGoSearchException", "An error occurred during search")

\* an except clause that wraps rate limits only
ReraiseOriginal(e) ==
    IF ContainsRatelimit(e.msg)
    THEN Exc("DuckDuckGoSearchException", "Rate limit exceeded")
    ELSE e

\* except Exception as e: both branches raise DuckDuckGoSearchException
Reraise(e) ==
    IF ContainsRatelimit(e.msg)
    THEN Exc("DuckDuckGoSearchException", "Rate limit exceeded")
    ELSE Exc("DuckDuckGoSearchException", "An error occurred during search")

\* ------------------------------------------------------- the retry policy
\* wait_exponential without its min
WaitExponentialNoMin(attempt_number) ==
    Max(0, Min(WaitMultiplier * Pow2(attempt_number - 1), WaitMax))

\* wait_exponential(multiplier=1, min=4, max=10) after attempt attempt_number
WaitExponential(attempt_number) ==
    Max(Max(0, WaitMin), Min(WaitMultiplier * Pow2(attempt_number - 1), WaitMax))

\* a stop condition that allows one attempt more
RetryDecisionOneMore(e, attempt_number) ==
    IF e.type # "DuckDuckGoSearchException" THEN "raise"
    ELSE IF attempt_number > StopAfterAttempt THEN "raise"
    ELSE "sleep"

\* a stop condition that never stops
RetryDecisionForever(e, attempt_number) ==
    IF e.type # "DuckDuckGoSearchException" THEN "raise" ELSE "sleep"

\* what tenacity does with an exception of attempt attempt_number:
\* retry_if_exception_type, stop_after_attempt(5), reraise=True
RetryDecision(e, attempt_number) ==
    IF e.type # "DuckDuckGoSearchException" THEN "raise"
    ELSE IF attempt_number >= StopAfterAttempt THEN "raise"
    ELSE "sleep"

\* the exception the caller of run sees when tenacity gives up on e
FinalError(e) == e

\* run with the test of as_string inverted
RunReturnInverted(search_results, as_string) ==
    IF ~as_string THEN PyStr(JsonDumps(PyList(search_results), FALSE))
    ELSE PyList(search_results)

\* the value run returns for the list search_results
RunReturn(search_results, as_string) ==
    IF as_string THEN PyStr(JsonDumps(PyList(search_results), FALSE))
    ELSE PyList(search_results)

\* ------------------------------------------------------- the rate limiter
\* AsyncLimiter._leak: the level after elapsed seconds
Leak(lvl, elapsed) == Max(lvl - (elapsed * MaxRate) \div TimePeriod, 0)

\* AsyncLimiter.has_capacity(1)
HasCapacity(lvl, elapsed) == Leak(lvl, elapsed) + 1 <= MaxRate

\* an acquire that takes no token
AcquireLevelFree(lvl, elapsed) == Leak(lvl, elapsed)

\* AsyncLimiter.acquire(1), once there is capacity: the new level
AcquireLevel(lvl, elapsed) == Leak(lvl, elapsed) + 1

\* ------------------------------------------------------------ environment
Callers == {"c1", "c2"}

RecA == [href |-> <<"h">>, body |-> <<"b">>, title |-> <<"t">>]

RecB == [href |-> <<"\"">>, body |-> <<"\\", EAcute>>, title |-> <<>>]

\* a provider record without href
RecM == [body |-> <<"b">>, title |-> <<"t">>]

\* a provider record without title
RecT == [href |-> <<"h">>, body |-> <<"b">>]

RatelimitExc == Exc("RatelimitException", "202 Ratelimit")

TimeoutExc == Exc("TimeoutException", "timed out")

LowercaseExc == Exc("Exception", "ratelimit")

Req(q, k, s) == [query |-> q, max_results |-> k, as_string |-> s]

Resp(rs, e) == [records |-> rs, exc |-> e]

\* the requests and provider behaviours of the cache specification
Requests ==
    {Req("rust", 1, TRUE), Req("rust", 1, FALSE), Req("rust", 2, TRUE),
     Req("tla", 1, TRUE)}

Responses ==
    {Resp(<<RecA, RecB>>, NoExc), Resp(<<RecB>>, NoExc),
     Resp(<<RecA>>, TimeoutExc)}

\* the requests and provider behaviours of the two-caller specification
SharedRequests == {Req("rust", 1, TRUE)}

SharedResponses == {Resp(<<RecA, RecB>>, NoExc), Resp(<<>>, RatelimitExc)}

\* the provider behaviours of the two-caller specification with two
\* results to tell apart
HitResponses == SharedResponses \cup {Resp(<<RecB>>, NoExc)}

\* the requests and provider behaviours of the single-call specification
SeqsUpTo(S, n) == UNION {[1..m -> S] : m \in 0..n}

RunRequests == {Req("rust", k, s) : k \in 0..(MaxRecords + 1), s \in BOOLEAN}

RunResponses ==
    {Resp(rs, e) : rs \in SeqsUpTo({RecA, RecB, RecM, RecT}, MaxRecords),
                   e \in {NoExc, RatelimitExc, TimeoutExc, LowercaseExc}}

\* idle periods by which the clock may advance when no timer is nearer
IdleSteps == {150}

\* ------------------------------------------------------------------ state
VARIABLES
    call,       \* per caller: the call of run / cached_run it is in
    level,      \* AsyncLimiter._level
    sinceCheck, \* seconds since AsyncLimiter._last_check (capped)
    cache,      \* SimpleMemoryCache: per key, the entry and its timer
    sinceStore, \* history: seconds since the last set of the key (capped)
    stored,     \* history: per key, the value set for the entry it has
    hitSince,   \* history: per key, a get has hit since the last set
    sinceAcq,   \* history: seconds since the last limiter acquisition
    minGap,     \* history: least time between two acquisitions (capped)
    calls       \* history: number of calls started

vars == <<call, level, sinceCheck, cache, sinceStore, stored, hitSince,
          sinceAcq, minGap, calls>>

NoReq == Req("", 0, FALSE)

IdleCall ==
    [pc |-> "idle", req |-> NoReq, viaCache |-> FALSE, hit |-> FALSE,
     attempt |-> 0, acquired |-> 0, invoked |-> 0, firstOk |-> 0,
     lastResp |-> Resp(<<>>, NoExc), pulled |-> 0, waits |-> <<>>,
     waitLeft |-> 0, result |-> PyNone, error |-> NoExc, errorAttempt |-> 0,
     msgs |-> {}, callAge |-> -1, storedAtCall |-> PyNone,
     afterHit |-> FALSE, afterFail |-> FALSE, wrote |-> FALSE,
     entryBy |-> NoReq]

\* by is history: the request of the call that set the entry
NoEntry == [present |-> FALSE, text |-> <<>>, ttlLeft |-> 0, by |-> NoReq]

\* the keys of the cache: the (query, max_results, as_string) of the call
Keys == Requests

Init ==
    /\ call = [c \in Callers |-> IdleCall]
    /\ level = 0
    /\ sinceCheck = TimePeriod
    /\ cache = [k \in Keys |-> NoEntry]
    /\ sinceStore = [k \in Keys |-> -1]
    /\ stored = [k \in Keys |-> PyNone]
    /\ hitSince = [k \in Keys |-> FALSE]
    /\ sinceAcq = -1
    /\ minGap = TimePeriod
    /\ calls = 0

Done(c) == call[c].pc \in {"idle", "returned", "failed"}

\* ---------------------------------------------------------------- actions
\* a get that returns the text of the entry as it is stored
CacheLookupText(k) ==
    IF cache[k].present THEN PyStr(cache[k].text) ELSE PyNone

\* a key that leaves as_string out
CacheKeyNoAsString(r) ==
    [query |-> r.query, max_results |-> r.max_results, as_string |-> TRUE]

\* the key of a call: the decorator builds it from the arguments of the call,
\* query, max_results and as_string
CacheKey(r) ==
    [query |-> r.query, max_results |-> r.max_results,
     as_string |-> r.as_string]

\* cached_run(query, max_results, as_string): the decorator looks the key up;
\* a hit returns the deserialized entry, a miss goes on to run (attempt 1)
CacheLookup(k) ==
    IF cache[k].present THEN JsonLoads(cache[k].text) ELSE PyNone

\* a get that restarts the timer of the entry
CacheAfterGetRefresh(k) == [cache EXCEPT ![k].ttlLeft = TTL]

\* a get leaves the entry and its timer as they are
CacheAfterGet(k) == cache

\* the previous call of c was a cached_run call of key r that failed
FailedBefore(c, r) ==
    call[c].pc = "failed" /\ call[c].viaCache /\ call[c].req = r

\* a decorator that remembers the failure of a key and fails the next call
\* of that key at once
CachedRunNegativeCache(c, r) ==
    /\ Done(c)
    /\ calls' = calls + 1
    /\ LET k == CacheKey(r)
           v == CacheLookup(k)
           base == [IdleCall EXCEPT !.req = r, !.viaCache = TRUE,
                                    !.callAge = sinceStore[k],
                                    !.storedAtCall = stored[k],
                                    !.afterHit = hitSince[k],
                                    !.afterFail = FailedBefore(c, r)]
       IN IF v.t # "none"
          THEN /\ call' = [call EXCEPT ![c] =
                    [base EXCEPT !.pc = "returned", !.hit = TRUE, !.result = v,
                                 !.entryBy = cache[k].by]]
               /\ cache' = CacheAfterGet(k)
               /\ hitSince' = [hitSince EXCEPT ![k] = TRUE]
          ELSE /\ call' = [call EXCEPT ![c] =
                    IF FailedBefore(c, r)
                    THEN [base EXCEPT !.pc = "failed", !.error = call[c].error]
                    ELSE [base EXCEPT !.pc = "acquire", !.attempt = 1]]
               /\ UNCHANGED <<cache, hitSince>>
    /\ UNCHANGED <<level, sinceCheck, sinceStore, stored, sinceAcq, minGap>>

CachedRun(c, r) ==
    /\ Done(c)
    /\ calls' = calls + 1
    /\ LET k == CacheKey(r)
           v == CacheLookup(k)
           base == [IdleCall EXCEPT !.req = r, !.viaCache = TRUE,
                                    !.callAge = sinceStore[k],
                                    !.storedAtCall = stored[k],
                                    !.afterHit = hitSince[k],
                                    !.afterFail = FailedBefore(c, r)]
       IN IF v.t # "none"
          THEN /\ call' = [call EXCEPT ![c] =
                    [base EXCEPT !.pc = "returned", !.hit = TRUE, !.result = v,
                                 !.entryBy = cache[k].by]]
               /\ cache' = CacheAfterGet(k)
               /\ hitSince' = [hitSince EXCEPT ![k] = TRUE]
          ELSE /\ call' = [call EXCEPT ![c] =
                    [base EXCEPT !.pc = "acquire", !.attempt = 1]]
               /\ UNCHANGED <<cache, hitSince>>
    /\ UNCHANGED <<level, sinceCheck, sinceStore, stored, sinceAcq, minGap>>

\* run(query, max_results, as_string) called directly: attempt 1 starts
Run(c, r) ==
    /\ Done(c)
    /\ calls' = calls + 1
    /\ call' = [call EXCEPT ![c] =
                  [IdleCall EXCEPT !.req = r, !.pc = "acquire", !.attempt = 1]]
    /\ UNCHANGED <<level, sinceCheck, cache, sinceStore, stored, hitSince,
                   sinceAcq, minGap>>

\* a limiter held like a lock until the provider call of its holder is over
AcquireExclusive(c) ==
    /\ call[c].pc = "acquire"
    /\ \A o \in Callers : call[o].pc # "invoking"
    /\ HasCapacity(level, sinceCheck)
    /\ level' = AcquireLevel(level, sinceCheck)
    /\ sinceCheck' = 0
    /\ sinceAcq' = 0
    /\ minGap' = IF sinceAcq < 0 THEN minGap ELSE Min(minGap, sinceAcq)
    /\ call' = [call EXCEPT ![c].pc = "invoking",
                            ![c].acquired = @ + 1,
                            ![c].invoked = @ + 1]
    /\ UNCHANGED <<cache, sinceStore, stored, hitSince, calls>>

\* async with self.rate_limiter, then loop.run_in_executor(...)
Acquire(c) ==
    /\ call[c].pc = "acquire"
    /\ HasCapacity(level, sinceCheck)
    /\ level' = AcquireLevel(level, sinceCheck)
    /\ sinceCheck' = 0
    /\ sinceAcq' = 0
    /\ minGap' = IF sinceAcq < 0 THEN minGap ELSE Min(minGap, sinceAcq)
    /\ call' = [call EXCEPT ![c].pc = "invoking",
                            ![c].acquired = @ + 1,
                            ![c].invoked = @ + 1]
    /\ UNCHANGED <<cache, sinceStore, stored, hitSince, calls>>

\* the attempts of all calls in flight together
AllAttempts ==
    LET n(c) == IF call[c].pc \in {"acquire", "invoking", "sleeping"}
                THEN call[c].attempt ELSE 0
    IN n("c1") + n("c2")

\* one attempt budget for all calls in flight
ProviderReturnSharedBudget(c, resp) ==
    /\ call[c].pc = "invoking"
    /\ LET me == call[c]
           out == SearchFromDdgs(me.req.max_results, resp)
           seen == [me EXCEPT !.lastResp = resp, !.pulled = out.pulled]
           again == [me EXCEPT !.lastResp = Resp(<<>>, NoExc), !.pulled = 0,
                               !.msgs = @ \cup {out.exc.msg}]
           e == Reraise(out.exc)
       IN call' = [call EXCEPT ![c] =
            IF out.ok
            THEN [seen EXCEPT !.pc = IF me.viaCache THEN "storing" ELSE "returned",
                              !.firstOk = me.attempt,
                              !.result = RunReturn(out.value, me.req.as_string)]
            ELSE IF RetryDecision(e, AllAttempts) = "sleep"
            THEN [again EXCEPT !.pc = "sleeping",
                              !.waits = Append(@, WaitExponential(me.attempt)),
                              !.waitLeft = WaitExponential(me.attempt)]
            ELSE [seen EXCEPT !.pc = "failed", !.error = FinalError(e),
                              !.errorAttempt = me.attempt,
                              !.msgs = @ \cup {out.exc.msg}]]
    /\ UNCHANGED <<level, sinceCheck, cache, sinceStore, stored, hitSince,
                   sinceAcq, minGap, calls>>

\* the executor future completes: search_results, or the except clause and
\* tenacity's decision on the exception it raises
ProviderReturn(c, resp) ==
    /\ call[c].pc = "invoking"
    /\ LET me == call[c]
           out == SearchFromDdgs(me.req.max_results, resp)
           seen == [me EXCEPT !.lastResp = resp, !.pulled = out.pulled]
           again == [me EXCEPT !.lastResp = Resp(<<>>, NoExc), !.pulled = 0,
                               !.msgs = @ \cup {out.exc.msg}]
           e == Reraise(out.exc)
       IN call' = [call EXCEPT ![c] =
            IF out.ok
            THEN [seen EXCEPT !.pc = IF me.viaCache THEN "storing" ELSE "returned",
                              !.firstOk = me.attempt,
                              !.result = RunReturn(out.value, me.req.as_string)]
            ELSE IF RetryDecision(e, me.attempt) = "sleep"
            THEN [again EXCEPT !.pc = "sleeping",
                              !.waits = Append(@, WaitExponential(me.attempt)),
                              !.waitLeft = WaitExponential(me.attempt)]
            ELSE [seen EXCEPT !.pc = "failed", !.error = FinalError(e),
                              !.errorAttempt = me.attempt,
                              !.msgs = @ \cup {out.exc.msg}]]
    /\ UNCHANGED <<level, sinceCheck, cache, sinceStore, stored, hitSince,
                   sinceAcq, minGap, calls>>

\* a retry that starts the provider call without passing the limiter
WakeSkipLimiter(c) ==
    /\ call[c].pc = "sleeping"
    /\ call[c].waitLeft = 0
    /\ call' = [call EXCEPT ![c].pc = "invoking", ![c].attempt = @ + 1,
                            ![c].invoked = @ + 1]
    /\ UNCHANGED <<level, sinceCheck, cache, sinceStore, stored, hitSince,
                   sinceAcq, minGap, calls>>

\* the backoff sleep is over: the next attempt starts
Wake(c) ==
    /\ call[c].pc = "sleeping"
    /\ call[c].waitLeft = 0
    /\ call' = [call EXCEPT ![c].pc = "acquire", ![c].attempt = @ + 1]
    /\ UNCHANGED <<level, sinceCheck, cache, sinceStore, stored, hitSince,
                   sinceAcq, minGap, calls>>

\* an entry with half the ttl
CacheEntryHalfTtl(value) ==
    [present |-> TRUE, text |-> JsonDumps(value, TRUE), ttlLeft |-> TTL \div 2]

\* the decorator stores the result of run under the key, ttl 300, and returns
CacheEntry(value) ==
    [present |-> TRUE, text |-> JsonDumps(value, TRUE), ttlLeft |-> TTL]

\* a decorator that leaves the entry that another call has set meanwhile
CacheStoreIfAbsent(c) ==
    /\ call[c].pc = "storing"
    /\ IF cache[CacheKey(call[c].req)].present
       THEN /\ call' = [call EXCEPT ![c].pc = "returned"]
            /\ UNCHANGED <<cache, sinceStore, stored, hitSince>>
       ELSE /\ cache' = [cache EXCEPT ![CacheKey(call[c].req)] =
                    CacheEntry(call[c].result) @@ [by |-> call[c].req]]
            /\ sinceStore' = [sinceStore EXCEPT ![CacheKey(call[c].req)] = 0]
            /\ stored' = [stored EXCEPT ![CacheKey(call[c].req)] =
                      call[c].result]
            /\ hitSince' = [hitSince EXCEPT ![CacheKey(call[c].req)] = FALSE]
            /\ call' = [call EXCEPT ![c].pc = "returned", ![c].wrote = TRUE]
    /\ UNCHANGED <<level, sinceCheck, sinceAcq, minGap, calls>>

CacheStore(c) ==
    /\ call[c].pc = "storing"
    /\ cache' = [cache EXCEPT ![CacheKey(call[c].req)] =
                    CacheEntry(call[c].result) @@ [by |-> call[c].req]]
    /\ sinceStore' = [sinceStore EXCEPT ![CacheKey(call[c].req)] = 0]
    /\ stored' = [stored EXCEPT ![CacheKey(call[c].req)] =
                      call[c].result]
    /\ hitSince' = [hitSince EXCEPT ![CacheKey(call[c].req)] = FALSE]
    /\ call' = [call EXCEPT ![c].pc = "returned", ![c].wrote = TRUE]
    /\ UNCHANGED <<level, sinceCheck, sinceAcq, minGap, calls>>

\* the timer of an entry fires: the entry is deleted
CacheExpire(k) ==
    /\ cache[k].present
    /\ cache[k].ttlLeft = 0
    /\ cache' = [cache EXCEPT ![k] = NoEntry]
    /\ stored' = [stored EXCEPT ![k] = PyNone]
    /\ UNCHANGED <<call, level, sinceCheck, sinceStore, hitSince,
                   sinceAcq, minGap, calls>>

\* the timers that are running, as seconds from now
Deadlines ==
    {call[c].waitLeft : c \in {x \in Callers : call[x].pc = "sleeping"}}
    \cup {cache[k].ttlLeft : k \in {x \in Keys : cache[x].present}}
    \cup (IF Leak(level, sinceCheck) > 0 THEN {TimePeriod - sinceCheck} ELSE {})

Age(a, d) == IF a < 0 THEN a ELSE Min(a + d, TTL + 1)

\* a caller that the event loop can run now, without time passing
Ready(c) ==
    \/ call[c].pc = "acquire" /\ HasCapacity(level, sinceCheck)
    \/ call[c].pc = "sleeping" /\ call[c].waitLeft = 0
    \/ call[c].pc = "storing"

\* the time to the nearest timer, an idle period when none is nearer
NextTimer ==
    LET ds == Deadlines \cup IdleSteps IN
    CHOOSE d \in ds : \A e \in ds : d <= e

\* d seconds pass: the event loop has nothing to run and no timer is due
Tick(d) ==
    /\ d > 0
    /\ \A c \in Callers : ~Ready(c)
    /\ \A k \in Keys : cache[k].present => d <= cache[k].ttlLeft
    /\ call' = [c \in Callers |->
                  [call[c] EXCEPT !.waitLeft = Max(@ - d, 0)]]
    /\ cache' = [k \in Keys |->
                  IF cache[k].present
                  THEN [cache[k] EXCEPT !.ttlLeft = @ - d]
                  ELSE cache[k]]
    /\ sinceCheck' = Min(sinceCheck + d, TimePeriod)
    /\ sinceStore' = [k \in Keys |-> Age(sinceStore[k], d)]
    /\ sinceAcq' = IF sinceAcq < 0 THEN sinceAcq ELSE Min(sinceAcq + d, TimePeriod)
    /\ UNCHANGED <<level, stored, hitSince, minGap, calls>>

\* two callers of cached_run on one wrapper, one key, a provider that
\* answers or is rate limited
Next ==
    \/ \E c \in Callers, r \in SharedRequests :
          calls < MaxCalls /\ CachedRun(c, r)
    \/ \E c \in Callers : Acquire(c)
    \/ \E c \in Callers, resp \in SharedResponses : ProviderReturn(c, resp)
    \/ \E c \in Callers : Wake(c)
    \/ \E c \in Callers : CacheStore(c)
    \/ \E k \in Keys : CacheExpire(k)
    \/ Tick(NextTimer)

Spec == Init /\ [][Next]_vars

\* no provider call is in flight
Quiet == \A c \in Callers : call[c].pc # "invoking"

\* two callers of cached_run on one wrapper, one key, a provider that
\* answers with one of two results or is rate limited, and answers
\* before the clock moves
NextHit ==
    \/ \E c \in Callers, r \in SharedRequests :
          calls < MaxCalls /\ CachedRun(c, r)
    \/ \E c \in Callers : Acquire(c)
    \/ \E c \in Callers, resp \in HitResponses : ProviderReturn(c, resp)
    \/ \E c \in Callers : Wake(c)
    \/ \E c \in Callers : CacheStore(c)
    \/ \E k \in Keys : CacheExpire(k)
    \/ Quiet /\ Tick(NextTimer)

SpecHit == Init /\ [][NextHit]_vars

\* one caller of cached_run, one key, a provider that answers or is rate
\* limited
NextLive ==
    \/ \E r \in SharedRequests : calls < MaxCalls /\ CachedRun("c1", r)
    \/ Acquire("c1")
    \/ \E resp \in SharedResponses : ProviderReturn("c1", resp)
    \/ Wake("c1")
    \/ CacheStore("c1")
    \/ \E k \in Keys : CacheExpire(k)
    \/ Tick(NextTimer)

\* the scheduling that the event loop, the timers and an answering provider
\* give: a step that stays possible is taken; no call need ever be started
Fairness ==
    /\ WF_vars(Acquire("c1"))
    /\ WF_vars(\E resp \in SharedResponses : ProviderReturn("c1", resp))
    /\ WF_vars(Wake("c1"))
    /\ WF_vars(CacheStore("c1"))
    /\ WF_vars(\E k \in Keys : CacheExpire(k))
    /\ WF_vars(Tick(NextTimer))

\* that specification with a provider that answers every call and a clock
\* that goes on
SpecLive == Init /\ [][NextLive]_vars /\ Fairness

\* one caller of cached_run, every key and provider behaviour of Responses,
\* a provider that answers at once
NextCache ==
    \/ \E r \in Requests : calls < MaxCacheCalls /\ CachedRun("c1", r)
    \/ Acquire("c1")
    \/ \E resp \in Responses : ProviderReturn("c1", resp)
    \/ Wake("c1")
    \/ CacheStore("c1")
    \/ \E k \in Keys : CacheExpire(k)
    \/ Quiet /\ Tick(NextTimer)

SpecCache == Init /\ [][NextCache]_vars

\* one caller, calls of run only, every request and provider behaviour
NextRun ==
    \/ \E r \in RunRequests : calls < MaxCalls /\ Run("c1", r)
    \/ Acquire("c1")
    \/ \E resp \in RunResponses : ProviderReturn("c1", resp)
    \/ Wake("c1")
    \/ Tick(NextTimer)

SpecRun == Init /\ [][NextRun]_vars

\* ----------------------------------------------------------------- claims
\* the first min(k, n) provider records, normalized, in provider order
FirstRecords(k, records) ==
    [j \in 1..Min(k, Len(records)) |->
        [link |-> records[j]["href"], snippet |-> records[j]["body"],
         title |-> records[j]["title"]]]

Terminal(c) == call[c].pc \in {"returned", "failed"}

\* C1: a cached_run call made while an entry for its key exists and less
\* than 300 seconds after the entry was set returns the stored value; during
\* the call no provider call, no limiter token, no retry attempt
C1_HitWithinTtl ==
    \A c \in Callers :
        LET me == call[c] IN
        (me.viaCache /\ me.callAge >= 0 /\ me.callAge < 300) =>
            /\ me.hit
            /\ me.pc = "returned"
            /\ PyEq(me.result, me.storedAtCall)
            /\ me.result.t # "none"
            /\ me.invoked = 0
            /\ me.acquired = 0
            /\ me.attempt = 0
            /\ me.waits = <<>>

\* a hit more than 150 seconds after the set, for a key whose value is a list
C1_Witness ==
    /\ call["c1"].hit
    /\ call["c1"].callAge > 150
    /\ call["c1"].callAge < 300
    /\ call["c1"].pc = "returned"
    /\ call["c1"].result.t = "list"
    /\ Len(call["c1"].result.v) = 1

\* C2: an entry expires 300 seconds after its set and hits do not extend
\* that: a cached_run call made more than 300 seconds after the set is a
\* miss and calls the provider
C2_ExpiresAfterTtl ==
    /\ \A k \in Keys :
          cache[k].present =>
              /\ sinceStore[k] >= 0
              /\ sinceStore[k] <= 300
              /\ cache[k].ttlLeft = 300 - sinceStore[k]
    /\ \A c \in Callers :
          LET me == call[c] IN
          (me.viaCache /\ me.callAge > 300) =>
              /\ ~me.hit
              /\ me.attempt >= 1
              /\ Terminal(c) => me.invoked >= 1

\* a miss more than 300 seconds after the set, with a hit in between
C2_Witness ==
    /\ call["c1"].viaCache
    /\ call["c1"].callAge > 300
    /\ call["c1"].afterHit
    /\ ~call["c1"].hit
    /\ call["c1"].pc = "returned"
    /\ call["c1"].invoked = 1

\* C3: an uncached call of run whose failures all carry "Ratelimit" invokes
\* the provider min(5, i) times, i the first successful attempt: it returns
\* the results of attempt i, or fails after the 5th attempt with the
\* DuckDuckGoSearchException of that attempt, not wrapped
C3_FiveAttempts ==
    \A c \in Callers :
        LET me == call[c] IN
        (~me.viaCache /\ \A m \in me.msgs : ContainsRatelimit(m)) =>
            /\ me.invoked <= 5
            /\ me.invoked = IF me.pc = "acquire" THEN me.attempt - 1 ELSE me.attempt
            /\ me.pc = "returned" =>
                  /\ me.firstOk = me.invoked
                  /\ me.firstOk \in 1..5
                  /\ me.error = NoExc
                  /\ IF me.req.as_string
                     THEN /\ me.result.t = "str"
                          /\ me.result.v = JsonDumps(PyList(FirstRecords(
                               me.req.max_results, me.lastResp.records)), FALSE)
                     ELSE /\ me.result.t = "list"
                          /\ me.result.v = FirstRecords(me.req.max_results,
                                                        me.lastResp.records)
            /\ me.pc = "failed" =>
                  /\ me.firstOk = 0
                  /\ me.invoked = 5
                  /\ me.errorAttempt = 5
                  /\ me.error = Exc("DuckDuckGoSearchException", "Rate limit exceeded")
            /\ me.pc = "sleeping" => me.invoked < 5

\* a call of run that succeeded at its 5th attempt after four rate limits
C3_Witness ==
    /\ call["c1"].pc = "returned"
    /\ ~call["c1"].viaCache
    /\ call["c1"].firstOk = 5
    /\ call["c1"].msgs = {"202 Ratelimit"}
    /\ Len(call["c1"].result.v) > 0

KeyErrorMsgs == {"'href'", "'body'", "'title'"}

\* C4 as claimed: a record without a required field fails the call at once
\* with a MalformedResult error, after one provider call
C4_Original ==
    \A c \in Callers :
        call[c].msgs \cap KeyErrorMsgs # {} =>
            /\ call[c].pc = "failed"
            /\ call[c].error.type = "MalformedResult"
            /\ call[c].invoked = 1

\* C4 amended: a record without a required field, among the records the
\* search consumes, fails that attempt with a KeyError, which run raises as
\* DuckDuckGoSearchException; the attempt is retried like any other failure
\* and the call fails only after 5 attempts, with DuckDuckGoSearchException
C4_MalformedIsRetried ==
    \A c \in Callers :
        LET me == call[c] IN
        me.msgs \cap KeyErrorMsgs # {} =>
            /\ me.pc \in {"sleeping", "acquire", "invoking", "returned", "failed"}
            /\ me.pc = "sleeping" => me.invoked < 5
            /\ me.pc = "returned" => me.firstOk > 1
            /\ me.pc = "failed" =>
                  /\ me.error.type = "DuckDuckGoSearchException"
                  /\ me.invoked = 5
                  /\ me.errorAttempt = 5

\* a call that met a record without href or title in each of its 5 attempts
C4_Witness ==
    /\ call["c1"].pc = "failed"
    /\ call["c1"].msgs = {"'href'", "'title'"}
    /\ call["c1"].invoked = 5
    /\ call["c1"].error = Exc("DuckDuckGoSearchException",
                              "An error occurred during search")

\* C5: the one limiter admits at most one attempt per period, first attempts
\* and retries of all callers alike: two acquisitions are at least one
\* period apart and each takes one token
C5_OneAcquisitionPerPeriod ==
    /\ minGap >= 1
    /\ level >= 0
    /\ level <= 1
    /\ sinceAcq >= 0 => level = 1
    /\ (sinceAcq >= 0 /\ sinceAcq < 1) => ~HasCapacity(level, sinceCheck)

\* both callers were admitted, one of them for a retry too
C5_Witness ==
    /\ call["c1"].acquired >= 2
    /\ call["c2"].acquired >= 1
    /\ call["c2"].pc = "invoking"
    /\ sinceAcq = 0

\* C6: a successful search returns the first min(k, n) provider records,
\* normalized, in provider order, and pulls no more than k records
C6_FirstKRecords ==
    \A c \in Callers :
        LET me == call[c]
            k == me.req.max_results
            n == Len(me.lastResp.records)
        IN /\ me.pulled <= k
           /\ (me.pc = "returned" /\ ~me.hit) =>
                 /\ me.pulled = Min(k, n)
                 /\ PyEq(me.result,
                         RunReturn(FirstRecords(k, me.lastResp.records),
                                   me.req.as_string))

\* the provider has more records than asked for: one of two is returned
C6_Witness ==
    /\ call["c1"].pc = "returned"
    /\ call["c1"].req.max_results = 1
    /\ call["c1"].lastResp.records = <<RecB, RecA>>
    /\ call["c1"].pulled = 1
    /\ call["c1"].result = PyList(<<Normalize(RecB)>>)

\* every list of records that a search of RunResponses can return
ResultLists == SeqsUpTo({Normalize(RecA), Normalize(RecB)}, MaxRecords)

\* each of these lists with json.loads of its as_string output
ParsedOutput ==
    {<<l, IF RunReturn(l, TRUE).t = "str"
          THEN JsonLoads(RunReturn(l, TRUE).v)
          ELSE PyNone>> : l \in ResultLists}

\* C7: for one request and provider response, the output with as_string,
\* parsed as JSON, is the output without as_string, element for element
C7_StringParsesToList ==
    \A c \in Callers :
        LET me == call[c]
            items == SearchFromDdgs(me.req.max_results, me.lastResp).value
            asString == RunReturn(items, TRUE)
            asList == RunReturn(items, FALSE)
        IN (me.pc = "returned" /\ ~me.hit) =>
              /\ asString.t = "str"
              /\ asList.t = "list"
              /\ <<items, asList>> \in ParsedOutput
              /\ PyEq(me.result, IF me.req.as_string THEN asString ELSE asList)

\* a string result of two records, with a quote, a backslash and a
\* non-ASCII character in them
C7_Witness ==
    /\ call["c1"].pc = "returned"
    /\ call["c1"].req.as_string
    /\ call["c1"].req.max_results = 2
    /\ call["c1"].lastResp.records = <<RecB, RecA>>
    /\ call["c1"].result.t = "str"

\* C8: the backoff waits of a call are non-decreasing, each in [4, 10], at
\* most 4, one between two consecutive attempts
C8_BackoffWaits ==
    \A c \in Callers :
        LET w == call[c].waits IN
        /\ Len(w) <= 4
        /\ \A i \in 1..Len(w) : w[i] >= 4 /\ w[i] <= 10
        /\ \A i \in 1..Len(w), j \in 1..Len(w) : i <= j => w[i] <= w[j]
        /\ Len(w) = Max(call[c].attempt - 1, 0)
                    + (IF call[c].pc = "sleeping" THEN 1 ELSE 0)
        /\ call[c].pc = "sleeping" => call[c].waitLeft <= w[Len(w)]

\* the four waits of a call of five attempts
C8_Witness ==
    /\ call["c1"].attempt = 5
    /\ call["c1"].waits = <<4, 4, 4, 8>>

\* C9: a provider failure is raised as DuckDuckGoSearchException and retried
\* whatever its message: the number of attempts and the outcome of a call
\* depend on which attempts failed, not on the messages
C9_AnyMessageSamePolicy ==
    \A c \in Callers :
        LET me == call[c] IN
        (~me.viaCache /\ me.msgs \cap KeyErrorMsgs = {}) =>
            /\ Terminal(c) =>
                  me.invoked = IF me.firstOk > 0 THEN me.firstOk ELSE 5
            /\ me.pc = "failed" =>
                  /\ me.firstOk = 0
                  /\ me.error.type = "DuckDuckGoSearchException"
            /\ me.pc = "returned" => me.firstOk > 0 /\ me.error = NoExc
            /\ me.pc = "sleeping" =>
                  /\ me.invoked < 5
                  /\ me.waits[Len(me.waits)] = WaitExponential(me.invoked)

\* a call that failed 5 times, never with "Ratelimit" in the message
C9_Witness ==
    /\ call["c1"].pc = "failed"
    /\ call["c1"].msgs = {"timed out", "ratelimit"}
    /\ call["c1"].invoked = 5
    /\ call["c1"].error.type = "DuckDuckGoSearchException"

\* the provider raised before the search had the records it asked for
RaisedInSearch(r, resp) ==
    resp.exc # NoExc /\ Len(resp.records) < r.max_results

\* each key with each value that run returns for it when the search gets
\* all it asked for
CompleteResults ==
    UNION {{<<k, RunReturn(FirstRecords(k.max_results, resp.records),
                           k.as_string)>> :
               resp \in {x \in Responses : ~RaisedInSearch(k, x)}} :
           k \in Requests}

\* C10: no partial results: an attempt in which the provider raises gives
\* no records, and a failed call gives no result to its caller or the cache
C10_NoPartialResults ==
    /\ \A c \in Callers :
          LET me == call[c] IN
          /\ me.pc = "failed" => me.result.t = "none"
          /\ me.pc \in {"sleeping", "acquire", "invoking"} => me.result.t = "none"
          /\ (me.pc \in {"storing", "returned"} /\ ~me.hit) =>
                /\ ~RaisedInSearch(me.req, me.lastResp)
                /\ me.result.t = (IF me.req.as_string THEN "str" ELSE "list")
                /\ <<me.req, me.result>> \in CompleteResults
                /\ (me.viaCache /\ me.pc = "returned"
                       /\ cache[me.req].present) =>
                      PyEq(stored[me.req], me.result)
    /\ \A k \in Keys :
          /\ cache[k].present => stored[k].t # "none"
          /\ stored[k].t # "none" =>
                /\ stored[k].t = (IF k.as_string THEN "str" ELSE "list")
                /\ <<k, stored[k]>> \in CompleteResults

\* the provider raised after one record in an attempt that wanted two; the
\* call failed and its key has no entry
C10_Witness ==
    /\ call["c1"].pc = "failed"
    /\ call["c1"].viaCache
    /\ call["c1"].req.max_results = 2
    /\ call["c1"].lastResp = Resp(<<RecA>>, TimeoutExc)
    /\ call["c1"].pulled = 1
    /\ ~cache[call["c1"].req].present
    /\ stored[call["c1"].req].t = "none"

\* the attempts of a call that have passed the limiter
AttemptsStarted(c) ==
    IF call[c].pc = "acquire" THEN call[c].attempt - 1 ELSE call[c].attempt

\* C11: every provider invocation, first attempt or retry, comes after a
\* limiter acquisition made for that attempt: a call never has more
\* invocations than tokens, and a call that made n attempts took n tokens
C11_TokenBeforeInvocation ==
    \A c \in Callers :
        /\ call[c].invoked <= call[c].acquired
        /\ call[c].acquired = AttemptsStarted(c)
        /\ call[c].invoked = AttemptsStarted(c)
        /\ call[c].pc = "invoking" => call[c].acquired = call[c].attempt
        /\ call[c].hit => call[c].acquired = 0

\* one call failed after five attempts and five tokens while the other
\* call is in its second attempt
C11_Witness ==
    /\ call["c1"].pc = "failed"
    /\ call["c1"].acquired = 5
    /\ call["c1"].invoked = 5
    /\ call["c2"].pc = "invoking"
    /\ call["c2"].acquired = 2
    /\ call["c2"].invoked = 2

\* C12: a cached_run call that fails creates no entry for its key, and the
\* next cached_run call of the same key is a miss that runs the whole chain
\* with 5 attempts of its own
C12_FailureNotCached ==
    \A c \in Callers :
        LET me == call[c] IN
        /\ (me.viaCache /\ me.pc = "failed") =>
              /\ me.invoked = 5
              /\ ~cache[me.req].present
              /\ stored[me.req].t = "none"
        /\ me.afterFail =>
              /\ ~me.hit
              /\ me.attempt >= 1
              /\ me.acquired = AttemptsStarted(c)
              /\ me.invoked = AttemptsStarted(c)
              /\ Len(me.waits) = me.attempt - (IF me.pc = "sleeping" THEN 0 ELSE 1)
              /\ me.pc = "sleeping" => me.attempt < 5
              /\ me.pc = "failed" => me.invoked = 5

\* the call after a failed call of the same key missed, used its own five
\* attempts, succeeded in the fifth and stored its result
C12_Witness ==
    /\ call["c1"].afterFail
    /\ call["c1"].pc = "returned"
    /\ call["c1"].firstOk = 5
    /\ call["c1"].invoked = 5
    /\ cache[call["c1"].req].present

\* C13: no single-flight: a cached_run call that finds no entry misses,
\* invokes the provider itself and sets the entry itself, whatever another
\* call of the same key is doing; only a call that found an entry does not
C13_NoSingleFlight ==
    \A c \in Callers :
        LET me == call[c] IN
        me.viaCache =>
            /\ (me.callAge < 0 \/ me.callAge > 300) => ~me.hit
            /\ (~me.hit /\ me.pc = "returned") =>
                  /\ me.invoked >= 1
                  /\ me.firstOk = me.invoked
                  /\ me.wrote
            /\ me.hit => (me.invoked = 0 /\ ~me.wrote)
            /\ me.wrote => me.pc = "returned"

\* two calls of one key, both started before the key was ever set: both
\* missed, both invoked the provider and both set the entry
C13_Witness ==
    /\ call["c1"].req = call["c2"].req
    /\ \A c \in Callers :
          /\ call[c].viaCache
          /\ call[c].callAge < 0
          /\ ~call[c].hit
          /\ call[c].pc = "returned"
          /\ call[c].invoked >= 1
          /\ call[c].wrote

\* C14: the limiter gates admission only and is not held during the
\* provider call: once a period has passed since the last admission, a
\* caller that waits for the limiter can be admitted, whatever provider
\* calls are in flight
C14_AdmissionNotHeld ==
    \A c \in Callers :
        (call[c].pc = "acquire" /\ sinceCheck >= TimePeriod) =>
            ENABLED Acquire(c)

\* two admitted provider calls in flight at the same time
C14_Witness ==
    /\ call["c1"].pc = "invoking"
    /\ call["c2"].pc = "invoking"
    /\ call["c1"].acquired = 1
    /\ call["c2"].acquired = 1

\* C15: an entry is returned only for the request tuple that set it: a hit
\* never returns a value set by a call that differs in query, max_results
\* or as_string, so the form of the value is the form the call asked for
C15_KeySeparation ==
    /\ \A k \in Keys : cache[k].present => cache[k].by = k
    /\ \A c \in Callers :
          LET me == call[c] IN
          me.hit =>
              /\ me.entryBy = me.req
              /\ me.result.t = (IF me.req.as_string THEN "str" ELSE "list")
              /\ <<me.req, me.result>> \in CompleteResults

\* a hit of an as_string=false call returns a list while the entry of the
\* call that differs only in as_string holds a string
C15_Witness ==
    /\ call["c1"].hit
    /\ call["c1"].req = Req("rust", 1, FALSE)
    /\ call["c1"].result.t = "list"
    /\ cache[Req("rust", 1, TRUE)].present
    /\ stored[Req("rust", 1, TRUE)].t = "str"

\* a call that has started and has not ended
InFlight(c) == call[c].pc \in {"acquire", "invoking", "sleeping", "storing"}

\* at most 5 passes through limiter and provider; the store step comes
\* after a successful invocation and before the return
BoundedPasses ==
    \A c \in Callers :
        LET me == call[c] IN
        /\ me.attempt <= 5
        /\ me.acquired <= 5
        /\ me.invoked <= 5
        /\ me.pc = "storing" =>
              /\ me.viaCache
              /\ me.firstOk = me.invoked
              /\ me.firstOk >= 1
              /\ me.result.t # "none"
              /\ ~me.wrote
        /\ me.wrote => (me.pc = "returned" /\ me.firstOk >= 1)
        /\ me.pc = "failed" => (me.firstOk = 0 /\ ~me.wrote)

\* C16: when every provider call answers and the limiter refills, every
\* call ends, returned or failed, after at most 5 passes through limiter
\* and provider; the cache is set only after a successful invocation and
\* before the return
C16_EveryCallEnds ==
    /\ []BoundedPasses
    /\ \A c \in Callers : InFlight(c) ~> Terminal(c)

\* the second call, made after a failed call, went through four backoff
\* sleeps and returned after it set the entry with the result of its fifth
\* attempt
C16_Witness ==
    /\ calls = 2
    /\ call["c1"].afterFail
    /\ call["c1"].pc = "returned"
    /\ call["c1"].wrote
    /\ call["c1"].firstOk = 5
    /\ Len(call["c1"].waits) = 4

\* C17: the attempt budget is per call: the attempts of a call count its
\* own failures only, so each of two concurrent calls makes up to 5 attempts
\* and fails only after 5 failed attempts of its own
C17_BudgetPerCall ==
    \A c \in Callers :
        LET me == call[c] IN
        (me.viaCache /\ ~me.hit) =>
            /\ me.attempt = Len(me.waits) + (IF me.pc = "sleeping" THEN 0 ELSE 1)
            /\ me.pc = "sleeping" => me.attempt <= 4
            /\ me.pc = "failed" =>
                  /\ me.invoked = 5
                  /\ me.errorAttempt = 5
                  /\ Len(me.waits) = 4
            /\ me.pc \in {"storing", "returned"} =>
                  me.firstOk = Len(me.waits) + 1

\* two calls in flight at once with nine attempts between them: one sleeps
\* after its fourth failure, the other is in its fifth attempt
C17_Witness ==
    /\ call["c1"].pc = "sleeping"
    /\ call["c1"].attempt = 4
    /\ call["c2"].pc = "invoking"
    /\ call["c2"].attempt = 5

\* C18: a hit returns the value that the call which set the entry returned
\* to its own caller; that value is the result of the one successful
\* attempt of that call, and a call without a successful attempt sets
\* nothing
C18_HitReturnsPopulatingValue ==
    \A c \in Callers :
        LET me == call[c]
            out == SearchFromDdgs(me.req.max_results, me.lastResp)
        IN /\ me.hit =>
                 /\ me.storedAtCall.t # "none"
                 /\ PyEq(me.result, me.storedAtCall)
           /\ (me.viaCache /\ ~me.hit /\ me.pc \in {"storing", "returned"}) =>
                 /\ me.firstOk = me.attempt
                 /\ out.ok
                 /\ PyEq(me.result, RunReturn(out.value, me.req.as_string))
           /\ me.pc = "failed" => (me.result.t = "none" /\ ~me.wrote)

\* one call set the entry with the result of its second attempt, a record
\* with a quote, a backslash and a non-ASCII character, and returned it;
\* the other call hit and returned the same value
C18_Witness ==
    /\ call["c1"].pc = "returned"
    /\ call["c1"].wrote
    /\ call["c1"].firstOk = 2
    /\ call["c1"].lastResp = Resp(<<RecB>>, NoExc)
    /\ call["c2"].hit
    /\ call["c2"].pc = "returned"
    /\ PyEq(call["c2"].result, call["c1"].result)
    /\ call["c2"].result = RunReturn(<<Normalize(RecB)>>, TRUE)

====
